---- MODULE Spec2Model ----
(***************************************************************************)
(* Expense tracker API (src/main.py): the users, expenses and categories   *)
(* collections, and the request handlers add_funds, add_expense,           *)
(* update_expense, delete_expense, get_expense, get_expenses, delete_user, *)
(* register, login, promote_user and those of the categories.  Every       *)
(* handler is a sequence of single MongoDB operations; each operation is   *)
(* one atomic step, and the steps of different requests may interleave.    *)
(* The pages of the Streamlit client (src/app.py) that cache the balance   *)
(* are modelled as one browser session sending these requests.             *)
(*                                                                         *)
(* Amounts are integers (a count of the smallest currency unit); dates are *)
(* integers ordered like the ISO date strings the code compares.           *)
(***************************************************************************)
EXTENDS Integers, Sequences, FiniteSets, TLC

\* ------------------------------------------------------------------ bounds
\* Number of expense documents ever inserted.
MaxIds == 2
\* Total funds ever added to one account.
MaxFunds == 3
\* Largest amount a request carries (the smallest is -1).
MaxAmt == 2

Procs == {1, 2}
Users == {"u1", "u2"}
\* The accounts an administrator has promoted before the run.
Admins == {"u2"}
Amounts == -1 .. MaxAmt

VARIABLES
    balance,     \* users_collection: user id -> the "balance" field
    role,        \* users_collection: user id -> the "role" field
    expenses,    \* expenses_collection: _id -> document
    categories,  \* categories_collection: set of documents
    registered,  \* users_collection: the documents register has inserted, in order
    session_state, \* src/app.py: st.session_state of the one browser session
    nextId,      \* the next ObjectId insert_one generates
    pc,          \* per request slot: the handler's next database operation
    req,         \* per request slot: the request (handler, caller, body, path id)
    loc,         \* per request slot: the handler's local variables
    resp,        \* per request slot: the response
    funds,       \* history: sum of the amounts add_funds has applied, per user
    pre,         \* history: balance and expenses when the request was issued
    conc         \* history: the requests in flight when this one was issued

vars == <<balance, role, expenses, categories, registered, session_state, nextId, pc, req, loc, resp, funds, pre, conc>>

\* ------------------------------------------------------- optional values
\* Optional[T] (ExpenseUpdate's fields): None is {}, a value v is {v}.
None == {}
Some(v) == {v}
Val(s) == CHOOSE x \in s : TRUE

\* -------------------------------------------------------------- requests
NoTarget == [kind |-> "none", val |-> 0]
\* The {expense_id} path parameter: a 24-char ObjectId, a numeric index, or neither.
Oid(i) == [kind |-> "oid", val |-> i]
Idx(i) == [kind |-> "idx", val |-> i]
BadId == [kind |-> "bad", val |-> 0]

AddFundsReq(u, a) ==
    [op |-> "add_funds", user |-> u, amount |-> Some(a), category |-> None,
     date |-> None, description |-> None, tgt |-> NoTarget,
     start |-> None, end |-> None, username |-> None,
     email |-> None, password |-> None, new_role |-> None]

AddExpenseReq(u, a, c, d, s) ==
    [op |-> "add_expense", user |-> u, amount |-> Some(a), category |-> Some(c),
     date |-> Some(d), description |-> Some(s), tgt |-> NoTarget,
     start |-> None, end |-> None, username |-> None,
     email |-> None, password |-> None, new_role |-> None]

UpdateExpenseReq(u, t, a, c, d, s) ==
    [op |-> "update_expense", user |-> u, amount |-> a, category |-> c,
     date |-> d, description |-> s, tgt |-> t,
     start |-> None, end |-> None, username |-> None,
     email |-> None, password |-> None, new_role |-> None]

DeleteExpenseReq(u, t) ==
    [op |-> "delete_expense", user |-> u, amount |-> None, category |-> None,
     date |-> None, description |-> None, tgt |-> t,
     start |-> None, end |-> None, username |-> None,
     email |-> None, password |-> None, new_role |-> None]

\* GET /expenses/{expense_id}
GetExpenseReq(u, t) ==
    [op |-> "get_expense", user |-> u, amount |-> None, category |-> None,
     date |-> None, description |-> None, tgt |-> t,
     start |-> None, end |-> None, username |-> None,
     email |-> None, password |-> None, new_role |-> None]

\* GET /expenses?category=&start=&end=
GetExpensesReq(u, c, st, en) ==
    [op |-> "get_expenses", user |-> u, amount |-> None, category |-> c,
     date |-> None, description |-> None, tgt |-> NoTarget,
     start |-> st, end |-> en, username |-> None,
     email |-> None, password |-> None, new_role |-> None]

\* DELETE /admin/users/{username}
DeleteUserReq(u, name) ==
    [op |-> "delete_user", user |-> u, amount |-> None, category |-> None,
     date |-> None, description |-> None, tgt |-> NoTarget,
     start |-> None, end |-> None, username |-> Some(name),
     email |-> None, password |-> None, new_role |-> None]

NoReq == [op |-> "none", user |-> "u1", amount |-> None, category |-> None,
          date |-> None, description |-> None, tgt |-> NoTarget,
     start |-> None, end |-> None, username |-> None,
     email |-> None, password |-> None, new_role |-> None]
NoLoc == [balance |-> 0, role |-> "user", obj_id |-> 0, amount |-> 0]
NoResp == [result |-> "none", new_balance |-> 0, expense_id |-> 0,
           doc |-> None, items |-> <<>>]

Reply(r) == [result |-> r, new_balance |-> 0, expense_id |-> 0,
             doc |-> None, items |-> <<>>]

\* ---------------------------------------------------------------- helpers
InFlight == {q \in Procs : pc[q] \notin {"idle", "done"}}

\* categories_collection.find_one({"name": name})
CategoryExists(name) == \E c \in categories : c.name = name

\* Mutant: the lookup does not filter on "user_id".
FindOwned_AnyOwner(exp, id, u) == id \in DOMAIN exp

\* expenses_collection.find_one({"_id": obj_id, "user_id": user})
FindOwned(exp, id, u) == id \in DOMAIN exp /\ exp[id].user_id = u

OwnedIds(exp, u) == {i \in DOMAIN exp : exp[i].user_id = u}

RECURSIVE SumAmounts(_, _)
SumAmounts(exp, S) ==
    IF S = {} THEN 0
    ELSE LET i == CHOOSE x \in S : TRUE
         IN exp[i].amount + SumAmounts(exp, S \ {i})

\* find({"user_id": u}).sort("date", -1): every order of the user's documents
\* with dates descending; documents with equal dates come in any order.
Listings(exp, u) ==
    LET S == OwnedIds(exp, u)
        n == Cardinality(S)
    IN {s \in [1 .. n -> S] :
          /\ \A i, j \in 1 .. n : i # j => s[i] # s[j]
          /\ \A i, j \in 1 .. n : i < j => exp[s[i]].date >= exp[s[j]].date}

\* Mutant: the update has no filter on "_id" (an update_many of every user).
IncBalance_AllUsers(u, d) == [v \in DOMAIN balance |-> balance[v] + d]

\* Mutant: the balance is written as the value get_current_user read for a
\* request of u that is about to adjust it, plus d, instead of by $inc.
IncBalance_FromSnapshot(u, d) ==
    LET W == {q \in Procs : /\ req[q].user = u
                            /\ pc[q] \in {"inc", "deduct", "adjust", "restore"}}
    IN IF u \in DOMAIN balance /\ W # {}
       THEN [balance EXCEPT ![u] = loc[CHOOSE q \in W : TRUE].balance + d]
       ELSE balance

\* find(query).sort("date", -1) over the documents S: every order of S with
\* dates descending; documents with equal dates come in any order.
SortedByDate(exp, S) ==
    LET n == Cardinality(S)
    IN {s \in [1 .. n -> S] :
          /\ \A i, j \in 1 .. n : i # j => s[i] # s[j]
          /\ \A i, j \in 1 .. n : i < j => exp[s[i]].date >= exp[s[j]].date}

\* "if category:", "if start and end:": a query parameter counts when it is
\* present and not the empty string (the date 0 stands for the empty string).
Truthy(f, empty) == f # None /\ Val(f) # empty

\* Mutant: the bounds of the date range are exclusive ($gt, $lt).
DateQuery_Exclusive(d, r) ==
    IF Truthy(r.start, 0) /\ Truthy(r.end, 0)
    THEN d > Val(r.start) /\ d < Val(r.end)
    ELSE IF Truthy(r.start, 0) THEN d > Val(r.start)
    ELSE IF Truthy(r.end, 0) THEN d < Val(r.end)
    ELSE TRUE

\* get_expenses: the "date" condition of the query.
DateQuery(d, r) ==
    IF Truthy(r.start, 0) /\ Truthy(r.end, 0)
    THEN d >= Val(r.start) /\ d <= Val(r.end)
    ELSE IF Truthy(r.start, 0) THEN d >= Val(r.start)
    ELSE IF Truthy(r.end, 0) THEN d <= Val(r.end)
    ELSE TRUE

\* get_expenses: the documents the query matches.
MatchesQuery(exp, r) ==
    {i \in DOMAIN exp :
        /\ exp[i].user_id = r.user
        /\ Truthy(r.category, "") => exp[i].category = Val(r.category)
        /\ DateQuery(exp[i].date, r)}

\* Mutant: the response leaves the description empty.
OutDoc_DescriptionDropped(exp, i) ==
    [id |-> i, user_id |-> exp[i].user_id, amount |-> exp[i].amount,
     category |-> exp[i].category, date |-> exp[i].date, description |-> ""]

\* The JSON object get_expense and get_expenses build from a document.
OutDoc(exp, i) ==
    [id |-> i, user_id |-> exp[i].user_id, amount |-> exp[i].amount,
     category |-> exp[i].category, date |-> exp[i].date,
     description |-> exp[i].description]

\* users_collection.update_one({"_id": u}, {"$inc": {"balance": d}})
IncBalance(u, d) ==
    IF u \in DOMAIN balance THEN [balance EXCEPT ![u] = @ + d] ELSE balance

\* Mutant: the funds check refuses an amount equal to the balance.
InsufficientFunds_NonStrict(bal, amount) == bal <= amount

\* The funds checks of add_expense and update_expense.
InsufficientFunds(bal, amount) == bal < amount

\* Mutant: add_funds accepts an amount of zero.
NonPositive_ZeroAllowed(amount) == amount < 0

\* add_funds: "Amount must be positive".
NonPositive(amount) == amount <= 0

\* Mutant: the operands of the subtraction are swapped.
AmountChange_Swapped(new_amount, original_amount) == original_amount - new_amount

\* update_expense: amount_change = new_amount - original_amount
AmountChange(new_amount, original_amount) == new_amount - original_amount

\* update_expense: update_data.get("amount", original_amount)
NewAmount(r, original_amount) ==
    IF r.amount # None THEN Val(r.amount) ELSE original_amount

\* Mutant: $set of the whole request body, so that a field the patch leaves
\* out is overwritten (the date by the null date 0, the others by the
\* values ExpenseCreate would carry).
SetFields_WholeBody(doc, r) ==
    [user_id |-> doc.user_id,
     amount |-> IF r.amount # None THEN Val(r.amount) ELSE doc.amount,
     category |-> IF r.category # None THEN Val(r.category) ELSE doc.category,
     date |-> IF r.date # None THEN Val(r.date) ELSE 0,
     description |-> IF r.description # None THEN Val(r.description) ELSE doc.description]

\* update_expense: {"$set": update_data}, the fields that are not None
SetFields(doc, r) ==
    [user_id |-> doc.user_id,
     amount |-> IF r.amount # None THEN Val(r.amount) ELSE doc.amount,
     category |-> IF r.category # None THEN Val(r.category) ELSE doc.category,
     date |-> IF r.date # None THEN Val(r.date) ELSE doc.date,
     description |-> IF r.description # None THEN Val(r.description) ELSE doc.description]

\* Mutant: nothing is added back.
RestoredAmount_Nothing(doc_amount) == 0

\* delete_expense: the amount added back, doc.get("amount")
RestoredAmount(doc_amount) == doc_amount

EmptyPatch(r) ==
    r.amount = None /\ r.category = None /\ r.date = None /\ r.description = None

\* -------------------------------------------------------- model bounds
PendingInserts ==
    Cardinality({q \in Procs :
                   \/ req[q].op = "add_expense" /\ pc[q] \in {"check", "insert"}
                   \/ pc[q] \in {"cat_find", "cat_insert",
                                 "reg_username", "reg_email", "reg_insert"}})

RECURSIVE SumRequested(_)
SumRequested(S) ==
    IF S = {} THEN 0
    ELSE LET q == CHOOSE x \in S : TRUE
         IN Val(req[q].amount) + SumRequested(S \ {q})

PendingFunds(u) ==
    SumRequested({q \in Procs : /\ req[q].op = "add_funds" /\ req[q].user = u
                                /\ pc[q] = "inc" /\ Val(req[q].amount) > 0})

WithinBounds(r) ==
    /\ r.op \in {"add_expense", "create_category", "register"} =>
          nextId + PendingInserts <= MaxIds
    /\ (r.op = "add_funds" /\ Val(r.amount) > 0) =>
          funds[r.user] + PendingFunds(r.user) + Val(r.amount) <= MaxFunds

\* ------------------------------------------------------------------- Init
Init ==
    /\ balance = [u \in Users |-> 0]
    /\ role = [u \in Users |-> IF u \in Admins THEN "admin" ELSE "user"]
    /\ expenses = <<>>
    /\ categories = {[id |-> 1, name |-> "Food"], [id |-> 2, name |-> "Travel"]}
    /\ registered = <<>>
    /\ session_state = [user |-> [username |-> "u1", balance |-> 0]]
    /\ nextId = 1
    /\ pc = [p \in Procs |-> "idle"]
    /\ req = [p \in Procs |-> NoReq]
    /\ loc = [p \in Procs |-> NoLoc]
    /\ resp = [p \in Procs |-> NoResp]
    /\ funds = [u \in Users |-> 0]
    /\ pre = [balance |-> [u \in Users |-> 0], expenses |-> <<>>]
    /\ conc = [p \in Procs |-> {}]

\* ---------------------------------------------------------------- actions
Finish(p, r) ==
    /\ pc' = [pc EXCEPT ![p] = "done"]
    /\ resp' = [resp EXCEPT ![p] = Reply(r)]

Goto(p, label) ==
    /\ pc' = [pc EXCEPT ![p] = label]
    /\ UNCHANGED resp

FirstStep(op) ==
    CASE op = "add_funds" -> "inc"
      [] op = "add_expense" -> "check"
      [] op = "get_expenses" -> "list"
      [] op = "delete_user" -> "find_user"
      [] op = "create_category" -> "cat_find"
      [] op = "update_category" -> "cat_update"
      [] op = "delete_category" -> "cat_delete"
      [] op = "promote_user" -> "promote"
      [] op = "register" -> "reg_username"
      [] op = "login" -> "login"
      [] OTHER -> "resolve"

\* A request arrives; get_current_user reads the caller's user document.
Authenticate(p, r, track) ==
    /\ pc[p] \in {"idle", "done"}
    /\ WithinBounds(r)
    /\ req' = [req EXCEPT ![p] = r]
    /\ conc' = [q \in Procs |-> IF q = p THEN InFlight \ {p} ELSE conc[q] \ {p}]
    /\ pre' = IF track THEN [balance |-> balance, expenses |-> expenses] ELSE pre
    /\ IF r.user \notin DOMAIN balance
       THEN /\ Finish(p, "Unauthorized")
            /\ loc' = [loc EXCEPT ![p] = NoLoc]
       ELSE /\ pc' = [pc EXCEPT ![p] = FirstStep(r.op)]
            /\ resp' = [resp EXCEPT ![p] = NoResp]
            /\ loc' = [loc EXCEPT ![p] = [NoLoc EXCEPT !.balance = balance[r.user],
                                                       !.role = role[r.user]]]
    /\ UNCHANGED <<balance, role, expenses, categories, registered, session_state, nextId, funds>>

\* resolve_expense_object_id
ResolveExpenseObjectId(p) ==
    /\ pc[p] = "resolve"
    /\ LET t == req[p].tgt IN
       \E lst \in Listings(expenses, req[p].user) :
          IF t.kind = "oid"
          THEN /\ loc' = [loc EXCEPT ![p].obj_id = t.val]
               /\ Goto(p, "find")
          ELSE IF t.kind = "bad"
          THEN /\ Finish(p, "BadFormat")
               /\ UNCHANGED loc
          ELSE IF t.val < 0 \/ t.val >= Len(lst)
          THEN /\ Finish(p, "OutOfRange")
               /\ UNCHANGED loc
          ELSE /\ loc' = [loc EXCEPT ![p].obj_id = lst[t.val + 1]]
               /\ Goto(p, "find")
    /\ UNCHANGED <<balance, role, expenses, categories, registered, session_state, nextId, req, funds, pre, conc>>

\* add_expense: the funds check on the caller's document, then the category lookup.
AddExpenseCheck(p) ==
    /\ pc[p] = "check" /\ req[p].op = "add_expense"
    /\ IF InsufficientFunds(loc[p].balance, Val(req[p].amount))
       THEN Finish(p, "InsufficientFunds")
       ELSE IF ~CategoryExists(Val(req[p].category))
       THEN Finish(p, "InvalidCategory")
       ELSE Goto(p, "insert")
    /\ UNCHANGED <<balance, role, expenses, categories, registered, session_state, nextId, req, loc, funds, pre, conc>>

\* add_expense: expenses_collection.insert_one(doc)
AddExpenseInsert(p) ==
    /\ pc[p] = "insert"
    /\ expenses' = (nextId :> [user_id |-> req[p].user,
                               amount |-> Val(req[p].amount),
                               category |-> Val(req[p].category),
                               date |-> Val(req[p].date),
                               description |-> Val(req[p].description)]) @@ expenses
    /\ nextId' = nextId + 1
    /\ loc' = [loc EXCEPT ![p].obj_id = nextId]
    /\ Goto(p, "deduct")
    /\ UNCHANGED <<balance, role, categories, registered, session_state, req, funds, pre, conc>>

\* add_expense: $inc balance by -amount, and the response.
AddExpenseDeduct(p) ==
    /\ pc[p] = "deduct"
    /\ balance' = IncBalance(req[p].user, -Val(req[p].amount))
    /\ pc' = [pc EXCEPT ![p] = "done"]
    /\ resp' = [resp EXCEPT ![p] = [Reply("ok") EXCEPT !.expense_id = loc[p].obj_id]]
    /\ UNCHANGED <<role, expenses, categories, registered, session_state, nextId, req, loc, funds, pre, conc>>

\* update_expense: find_one, original_amount, and the empty-patch check.
UpdateExpenseFind(p) ==
    /\ pc[p] = "find" /\ req[p].op = "update_expense"
    /\ IF ~FindOwned(expenses, loc[p].obj_id, req[p].user)
       THEN /\ Finish(p, "NotFound")
            /\ UNCHANGED loc
       ELSE IF EmptyPatch(req[p])
       THEN /\ Finish(p, "InvalidRequest")
            /\ UNCHANGED loc
       ELSE /\ loc' = [loc EXCEPT ![p].amount = expenses[loc[p].obj_id].amount]
            /\ Goto(p, "check")
    /\ UNCHANGED <<balance, role, expenses, categories, registered, session_state, nextId, req, funds, pre, conc>>

\* update_expense: the category lookup, amount_change and the funds check.
UpdateExpenseCheck(p) ==
    /\ pc[p] = "check" /\ req[p].op = "update_expense"
    /\ IF req[p].category # None /\ ~CategoryExists(Val(req[p].category))
       THEN Finish(p, "InvalidCategory")
       ELSE IF InsufficientFunds(loc[p].balance,
                                 AmountChange(NewAmount(req[p], loc[p].amount), loc[p].amount))
       THEN Finish(p, "InsufficientFunds")
       ELSE Goto(p, "set")
    /\ UNCHANGED <<balance, role, expenses, categories, registered, session_state, nextId, req, loc, funds, pre, conc>>

\* Mutant: the result of update_one is not examined.
UpdateExpenseSet_IgnoresMatchedCount(p) ==
    /\ pc[p] = "set"
    /\ expenses' = IF FindOwned(expenses, loc[p].obj_id, req[p].user)
                   THEN [expenses EXCEPT ![loc[p].obj_id] = SetFields(@, req[p])]
                   ELSE expenses
    /\ Goto(p, "adjust")
    /\ UNCHANGED <<balance, role, categories, registered, session_state, nextId, req, loc,
                   funds, pre, conc>>

\* update_expense: update_one({"_id", "user_id"}, {"$set": update_data})
UpdateExpenseSet(p) ==
    /\ pc[p] = "set"
    /\ IF FindOwned(expenses, loc[p].obj_id, req[p].user)
       THEN /\ expenses' = [expenses EXCEPT ![loc[p].obj_id] = SetFields(@, req[p])]
            /\ Goto(p, "adjust")
       ELSE /\ Finish(p, "NotFound")
            /\ UNCHANGED expenses
    /\ UNCHANGED <<balance, role, categories, registered, session_state, nextId, req, loc, funds, pre, conc>>

\* update_expense: $inc balance by -amount_change, and the response.
UpdateExpenseAdjust(p) ==
    /\ pc[p] = "adjust"
    /\ balance' = IncBalance(req[p].user,
                             -AmountChange(NewAmount(req[p], loc[p].amount), loc[p].amount))
    /\ Finish(p, "ok")
    /\ UNCHANGED <<role, expenses, categories, registered, session_state, nextId, req, loc, funds, pre, conc>>

\* delete_expense: find_one
DeleteExpenseFind(p) ==
    /\ pc[p] = "find" /\ req[p].op = "delete_expense"
    /\ IF ~FindOwned(expenses, loc[p].obj_id, req[p].user)
       THEN /\ Finish(p, "NotFound")
            /\ UNCHANGED loc
       ELSE /\ loc' = [loc EXCEPT ![p].amount = expenses[loc[p].obj_id].amount]
            /\ Goto(p, "delete")
    /\ UNCHANGED <<balance, role, expenses, categories, registered, session_state, nextId, req, funds, pre, conc>>

\* Mutant: the result of delete_one is not examined.
DeleteExpenseDelete_IgnoresDeletedCount(p) ==
    /\ pc[p] = "delete"
    /\ expenses' = [i \in DOMAIN expenses \ {loc[p].obj_id} |-> expenses[i]]
    /\ Goto(p, "restore")
    /\ UNCHANGED <<balance, role, categories, registered, session_state, nextId, req, loc,
                   funds, pre, conc>>

\* delete_expense: delete_one({"_id", "user_id"})
DeleteExpenseDelete(p) ==
    /\ pc[p] = "delete"
    /\ IF FindOwned(expenses, loc[p].obj_id, req[p].user)
       THEN /\ expenses' = [i \in DOMAIN expenses \ {loc[p].obj_id} |-> expenses[i]]
            /\ Goto(p, "restore")
       ELSE /\ Finish(p, "NotFound")
            /\ UNCHANGED expenses
    /\ UNCHANGED <<balance, role, categories, registered, session_state, nextId, req, loc, funds, pre, conc>>

\* delete_expense: $inc balance by the amount of the document read, and the response.
DeleteExpenseRestore(p) ==
    /\ pc[p] = "restore"
    /\ balance' = IncBalance(req[p].user, RestoredAmount(loc[p].amount))
    /\ Finish(p, "ok")
    /\ UNCHANGED <<role, expenses, categories, registered, session_state, nextId, req, loc, funds, pre, conc>>

\* Mutant: the $inc is sent before the amount is checked.
AddFundsInc_WriteBeforeCheck(p) ==
    /\ pc[p] = "inc"
    /\ balance' = IncBalance(req[p].user, Val(req[p].amount))
    /\ funds' = [funds EXCEPT ![req[p].user] = @ + Val(req[p].amount)]
    /\ IF NonPositive(Val(req[p].amount))
       THEN Finish(p, "InvalidAmount")
       ELSE Goto(p, "readback")
    /\ UNCHANGED <<role, expenses, categories, registered, session_state, nextId, req, loc, pre, conc>>

\* add_funds: the amount check and $inc balance by amount.
AddFundsInc(p) ==
    /\ pc[p] = "inc"
    /\ IF NonPositive(Val(req[p].amount))
       THEN /\ Finish(p, "InvalidAmount")
            /\ UNCHANGED <<balance, funds>>
       ELSE IF req[p].user \notin DOMAIN balance
       THEN /\ Finish(p, "NotFound")
            /\ UNCHANGED <<balance, funds>>
       ELSE /\ balance' = IncBalance(req[p].user, Val(req[p].amount))
            /\ funds' = [funds EXCEPT ![req[p].user] = @ + Val(req[p].amount)]
            /\ Goto(p, "readback")
    /\ UNCHANGED <<role, expenses, categories, registered, session_state, nextId, req, loc, pre, conc>>

\* add_funds: find_one of the updated user, and the response with new_balance.
AddFundsReadBack(p) ==
    /\ pc[p] = "readback"
    /\ pc' = [pc EXCEPT ![p] = "done"]
    /\ resp' = [resp EXCEPT ![p] =
                  IF req[p].user \in DOMAIN balance
                  THEN [Reply("ok") EXCEPT !.new_balance = balance[req[p].user]]
                  ELSE Reply("ServerError")]
    /\ UNCHANGED <<balance, role, expenses, categories, registered, session_state, nextId, req, loc, funds, pre, conc>>

\* The $inc of the balance that follows a ledger write raises (the database is
\* unreachable): no handler catches it, the request ends with HTTP 500 and
\* the ledger write stays.
BalanceUpdateFails(p) ==
    /\ pc[p] \in {"deduct", "adjust", "restore"}
    /\ Finish(p, "ServerError")
    /\ UNCHANGED <<balance, role, expenses, categories, registered, session_state, nextId, req, loc, funds, pre, conc>>

\* get_expense: find_one and the response.
GetExpenseFind(p) ==
    /\ pc[p] = "find" /\ req[p].op = "get_expense"
    /\ pc' = [pc EXCEPT ![p] = "done"]
    /\ resp' = [resp EXCEPT ![p] =
                  IF FindOwned(expenses, loc[p].obj_id, req[p].user)
                  THEN [Reply("ok") EXCEPT !.doc = Some(OutDoc(expenses, loc[p].obj_id))]
                  ELSE Reply("NotFound")]
    /\ UNCHANGED <<balance, role, expenses, categories, registered, session_state, nextId, req, loc, funds, pre, conc>>

\* get_expenses: find(query).sort("date", -1) and the response.
GetExpensesFind(p) ==
    /\ pc[p] = "list"
    /\ \E s \in SortedByDate(expenses, MatchesQuery(expenses, req[p])) :
          resp' = [resp EXCEPT ![p] =
                     [Reply("ok") EXCEPT
                        !.items = [k \in 1 .. Len(s) |-> OutDoc(expenses, s[k])]]]
    /\ pc' = [pc EXCEPT ![p] = "done"]
    /\ UNCHANGED <<balance, role, expenses, categories, registered, session_state, nextId, req, loc, funds, pre, conc>>

\* delete_user: get_current_admin on the caller's document, then find_one
\* of the user to delete.
DeleteUserFind(p) ==
    /\ pc[p] = "find_user"
    /\ IF loc[p].role # "admin"
       THEN Finish(p, "Forbidden")
       ELSE IF Val(req[p].username) \notin DOMAIN balance
       THEN Finish(p, "NotFound")
       ELSE Goto(p, "delete_many")
    /\ UNCHANGED <<balance, role, expenses, categories, registered, session_state, nextId, req, loc, funds, pre, conc>>

\* delete_user: expenses_collection.delete_many({"user_id": ...})
DeleteUserExpenses(p) ==
    /\ pc[p] = "delete_many"
    /\ expenses' = [i \in DOMAIN expenses \ OwnedIds(expenses, Val(req[p].username))
                      |-> expenses[i]]
    /\ Goto(p, "delete_user")
    /\ UNCHANGED <<balance, role, categories, registered, session_state, nextId, req, loc, funds, pre, conc>>

\* delete_user: users_collection.delete_one({"_id": ...}), and the response.
DeleteUserDoc(p) ==
    /\ pc[p] = "delete_user"
    /\ balance' = [u \in DOMAIN balance \ {Val(req[p].username)} |-> balance[u]]
    /\ role' = [u \in DOMAIN role \ {Val(req[p].username)} |-> role[u]]
    /\ Finish(p, "ok")
    /\ UNCHANGED <<expenses, categories, registered, session_state, nextId, req, loc, funds, pre, conc>>

\* One database operation of the request in slot p.
Step(p) ==
    \/ ResolveExpenseObjectId(p)
    \/ AddExpenseCheck(p)
    \/ AddExpenseInsert(p)
    \/ AddExpenseDeduct(p)
    \/ UpdateExpenseFind(p)
    \/ UpdateExpenseCheck(p)
    \/ UpdateExpenseSet(p)
    \/ UpdateExpenseAdjust(p)
    \/ DeleteExpenseFind(p)
    \/ DeleteExpenseDelete(p)
    \/ DeleteExpenseRestore(p)
    \/ AddFundsInc(p)
    \/ AddFundsReadBack(p)

\* ------------------------------------------------- requests of each run
\* Path ids: the ObjectIds ever generated and one that never is, the first
\* position of a listing, a position on either side of every listing, and a
\* malformed id.
Targets ==
    {Oid(i) : i \in 1 .. MaxIds + 1} \cup {Idx(-1), Idx(0), Idx(MaxIds)} \cup {BadId}

\* Sequential run: one request at a time, by one user; a second user stores
\* expenses (of amount 0, having no funds) that the first may address.
SeqRequests ==
    {AddFundsReq("u1", a) : a \in Amounts}
    \cup {AddExpenseReq("u1", a, c, 1, "a") : a \in Amounts, c \in {"Food", "Bogus"}}
    \cup {UpdateExpenseReq("u1", t, a, None, None, None) :
            t \in Targets, a \in {None} \cup {Some(x) : x \in Amounts}}
    \cup {UpdateExpenseReq("u1", t, a, Some("Bogus"), None, None) :
            t \in Targets, a \in {None, Some(MaxAmt)}}
    \cup {DeleteExpenseReq("u1", t) : t \in Targets}
    \cup {AddExpenseReq("u2", 0, "Food", 1, "a")}

NextSeq ==
    \/ \E r \in SeqRequests : InFlight = {} /\ Authenticate(1, r, TRUE)
    \/ Step(1)

SpecSeq == Init /\ [][NextSeq]_vars

\* Sequential run with every combination of patch fields, on a ledger whose
\* expenses are created alike; the patches address the first of them.
PatchTargets == {Oid(1)}

PatchRequests ==
    {AddFundsReq("u1", MaxAmt)}
    \cup {AddExpenseReq("u1", a, "Food", 1, "a") : a \in {-1, 1}}
    \cup {UpdateExpenseReq("u1", t, a, c, d, s) :
            t \in PatchTargets,
            a \in {None} \cup {Some(x) : x \in Amounts},
            c \in {None, Some("Travel"), Some("Bogus")},
            d \in {None, Some(2)},
            s \in {None, Some("b")}}
    \cup {DeleteExpenseReq("u1", t) : t \in {Oid(1), Oid(2)}}

NextPatch ==
    \/ \E r \in PatchRequests : InFlight = {} /\ Authenticate(1, r, TRUE)
    \/ Step(1)

SpecPatch == Init /\ [][NextPatch]_vars

\* A lost or failed balance update lets the stored balance drift without
\* limit; requests are issued only while it is within MaxFunds of zero.
BalanceInRange(u) == balance[u] \in -MaxFunds .. MaxFunds

\* The requests of the concurrent run and of the run with failures: one user,
\* positive amounts, the first expense addressed by its id.
ConcRequests ==
    {AddFundsReq("u1", MaxAmt)}
    \cup {AddExpenseReq("u1", a, "Food", 1, "a") : a \in 1 .. MaxAmt}
    \cup {UpdateExpenseReq("u1", Oid(1), Some(a), None, None, None) : a \in 1 .. MaxAmt}
    \cup {DeleteExpenseReq("u1", Oid(1))}

\* Concurrent run: two requests of one user at a time, their database
\* operations interleaved in every order.
Next ==
    \/ \E p \in Procs, r \in ConcRequests :
          BalanceInRange(r.user) /\ Authenticate(p, r, FALSE)
    \/ \E p \in Procs : Step(p)

Spec == Init /\ [][Next]_vars

\* Sequential run in which the balance update of a request may fail.
NextFail ==
    \/ \E r \in ConcRequests :
          InFlight = {} /\ BalanceInRange(r.user) /\ Authenticate(1, r, TRUE)
    \/ Step(1)
    \/ BalanceUpdateFails(1)

SpecFail == Init /\ [][NextFail]_vars

\* Sequential run with reads: expenses of two categories and two dates, of
\* two users, addressed by id and by index, read one by one and listed with
\* every combination of filters.
ReadRequests ==
    {AddFundsReq("u1", MaxAmt)}
    \cup {AddExpenseReq("u1", 1, c, d, "a") : c \in {"Food", "Travel"}, d \in {1, 2}}
    \cup {AddExpenseReq("u2", 0, "Food", 1, "a")}
    \cup {UpdateExpenseReq("u1", t, None, None, Some(2), None) :
            t \in {Oid(1), Oid(MaxIds + 1), Idx(0), Idx(1)}}
    \cup {DeleteExpenseReq("u1", t) : t \in {Oid(1), Oid(MaxIds + 1), Idx(0), Idx(1)}}
    \cup {GetExpenseReq("u1", t) : t \in Targets}
    \cup {GetExpensesReq("u1", c, st, en) :
            c \in {None, Some(""), Some("Food")},
            st \in {None, Some(0), Some(2)},
            en \in {None, Some(1), Some(2)}}
    \cup {GetExpensesReq("u2", None, None, None)}

NextRead ==
    \/ \E r \in ReadRequests : InFlight = {} /\ Authenticate(1, r, TRUE)
    \/ Step(1)
    \/ GetExpenseFind(1)
    \/ GetExpensesFind(1)

SpecRead == Init /\ [][NextRead]_vars

\* Sequential run of writes and reads: slot 1 issues the requests that
\* change the ledger, slot 2 reads single expenses by id, one request at a
\* time in all, so that slot 1 keeps the last write while slot 2 reads.
WriteRequests ==
    {AddFundsReq("u1", MaxAmt)}
    \cup {AddExpenseReq("u1", a, c, d, x) :
            a \in {1, MaxAmt}, c \in {"Food", "Travel"}, d \in {1, 2}, x \in {"a", "b"}}
    \cup {UpdateExpenseReq("u1", t, Some(1), None, None, Some("b")) : t \in {Oid(1), Idx(0)}}
    \cup {DeleteExpenseReq("u1", Oid(1))}

GetRequests == {GetExpenseReq("u1", Oid(i)) : i \in 1 .. MaxIds}

NextRoundTrip ==
    \/ \E r \in WriteRequests : InFlight = {} /\ Authenticate(1, r, FALSE)
    \/ \E r \in GetRequests : InFlight = {} /\ Authenticate(2, r, TRUE)
    \/ Step(1)
    \/ ResolveExpenseObjectId(2)
    \/ GetExpenseFind(2)

SpecRoundTrip == Init /\ [][NextRoundTrip]_vars

\* Run with account deletion: slot 1 issues the requests of user u1, slot 2
\* the delete_user requests (of the administrator u2, and one of u1, who is
\* none); the database operations of the two slots interleave in every order.
OwnerRequests ==
    {AddFundsReq("u1", MaxAmt)}
    \cup {AddExpenseReq("u1", 1, "Food", 1, "a")}
    \cup {UpdateExpenseReq("u1", t, Some(MaxAmt), None, None, None) : t \in {Oid(1), Idx(0)}}
    \cup {DeleteExpenseReq("u1", t) : t \in {Oid(1), Idx(0)}}

AdminRequests ==
    {DeleteUserReq("u2", "u1"), DeleteUserReq("u2", "u3"), DeleteUserReq("u1", "u2")}

NextAdmin ==
    \/ \E r \in OwnerRequests : Authenticate(1, r, FALSE)
    \/ \E r \in AdminRequests : Authenticate(2, r, FALSE)
    \/ Step(1)
    \/ DeleteUserFind(2)
    \/ DeleteUserExpenses(2)
    \/ DeleteUserDoc(2)

SpecAdmin == Init /\ [][NextAdmin]_vars

\* Two users at once: slot 1 issues the requests of u1 and slot 2 those of
\* u2, by id and by index, and their database operations interleave in every
\* order.
RequestsOf(u) ==
    {AddFundsReq(u, a) : a \in {0, MaxAmt}}
    \cup {AddExpenseReq(u, 1, c, 1, "a") : c \in {"Food", "Bogus"}}
    \cup {UpdateExpenseReq(u, t, Some(a), None, None, None) :
            t \in {Oid(1), Idx(0)}, a \in {1, MaxAmt}}
    \cup {DeleteExpenseReq(u, t) : t \in {Oid(1), Idx(0), Idx(1)}}

NextUsers ==
    \/ \E r \in RequestsOf("u1") : Authenticate(1, r, FALSE)
    \/ \E r \in RequestsOf("u2") : Authenticate(2, r, FALSE)
    \/ \E p \in Procs : Step(p)

SpecUsers == Init /\ [][NextUsers]_vars

\* Concurrent add_funds requests only, of either user, with every amount.
FundsRequests == {AddFundsReq(u, a) : u \in Users, a \in Amounts}

NextFunds ==
    \/ \E p \in Procs, r \in FundsRequests : Authenticate(p, r, FALSE)
    \/ \E p \in Procs : AddFundsInc(p)
    \/ \E p \in Procs : AddFundsReadBack(p)

SpecFunds == Init /\ [][NextFunds]_vars

\* ------------------------------------------------------------ properties
\* The request in slot p has returned.
Returned(p) == pc[p] = "done"

\* The balance a ledger scan gives: funds added minus the amounts of the
\* user's expenses.
Consistent(u) == balance[u] = funds[u] - SumAmounts(expenses, OwnedIds(expenses, u))

\* Every document but id is as it was when the request was issued.
OthersUnchanged(id) ==
    /\ DOMAIN expenses \ {id} = DOMAIN pre.expenses \ {id}
    /\ \A i \in DOMAIN expenses \ {id} : expenses[i] = pre.expenses[i]

OtherBalancesUnchanged(u) == \A v \in DOMAIN balance \ {u} : balance[v] = pre.balance[v]

\* C1: in a run of requests issued one at a time from a new account, after
\* each request the stored balance equals the funds added minus the sum of
\* the amounts of the user's expenses still present.
C1_BalanceMatchesLedger == InFlight = {} => \A u \in DOMAIN balance : Consistent(u)

\* C1 witness: funds were added, two expenses were created, one was deleted,
\* and an update of the other has just been accepted.
C1_Witness ==
    /\ Returned(1) /\ req[1].op = "update_expense" /\ resp[1].result = "ok"
    /\ req[1].amount # None /\ Val(req[1].amount) # pre.expenses[loc[1].obj_id].amount
    /\ funds["u1"] > 0 /\ nextId = 3 /\ Cardinality(OwnedIds(expenses, "u1")) = 1
    /\ Consistent("u1")

\* C4 (as claimed): in a run of requests issued one at a time, with any
\* amounts, no stored balance is ever negative.
C4_BalanceNeverNegative == \A u \in DOMAIN balance : balance[u] >= 0

\* C6: a request that validation rejects leaves every expense document and
\* every balance as they were when the request was issued.
ValidationErrors ==
    {"InvalidAmount", "InvalidCategory", "InsufficientFunds", "NotFound",
     "OutOfRange", "InvalidRequest"}

C6_RejectionChangesNothing ==
    \A p \in Procs :
        (Returned(p) /\ resp[p].result \in ValidationErrors) =>
            (balance = pre.balance /\ expenses = pre.expenses)

\* C6 witness (scenario C): an update of an owned expense whose increase the
\* balance cannot cover has been rejected, with funds and an expense stored.
C6_Witness ==
    /\ Returned(1) /\ req[1].op = "update_expense"
    /\ resp[1].result = "InsufficientFunds"
    /\ balance["u1"] > 0 /\ OwnedIds(expenses, "u1") # {}

\* C7: add_expense with a registered category and an amount equal to the
\* balance succeeds, stores exactly one new document and leaves the balance
\* at 0; with an amount above the balance it fails with InsufficientFunds.
C7_CreateAtBalanceBoundary ==
    \A p \in Procs :
        (Returned(p) /\ req[p].op = "add_expense") =>
            LET u == req[p].user
                a == Val(req[p].amount)
                id == resp[p].expense_id
            IN /\ a > pre.balance[u] => resp[p].result = "InsufficientFunds"
               /\ (a = pre.balance[u] /\ CategoryExists(Val(req[p].category))) =>
                     /\ resp[p].result = "ok"
                     /\ balance[u] = 0
                     /\ id \notin DOMAIN pre.expenses
                     /\ DOMAIN expenses = DOMAIN pre.expenses \cup {id}
                     /\ expenses[id].user_id = u /\ expenses[id].amount = a
                     /\ OthersUnchanged(id)

\* C7 witness: an expense of the whole, positive balance has been accepted.
C7_Witness ==
    /\ Returned(1) /\ req[1].op = "add_expense" /\ resp[1].result = "ok"
    /\ Val(req[1].amount) = pre.balance["u1"] /\ pre.balance["u1"] > 0
    /\ balance["u1"] = 0

\* C9: delete_expense on an owned expense removes that document and adds to
\* the owner's balance the amount the document held when it was deleted, so
\* the balance is again funds added minus the expenses that remain.
C9_DeleteRestoresAmount ==
    \A p \in Procs :
        (Returned(p) /\ req[p].op = "delete_expense") =>
            LET u == req[p].user
                id == loc[p].obj_id
            IN /\ (req[p].tgt.kind = "oid" /\ FindOwned(pre.expenses, req[p].tgt.val, u))
                     => (resp[p].result = "ok" /\ id = req[p].tgt.val)
               /\ resp[p].result = "ok" =>
                     /\ FindOwned(pre.expenses, id, u)
                     /\ id \notin DOMAIN expenses
                     /\ OthersUnchanged(id)
                     /\ balance[u] = pre.balance[u] + pre.expenses[id].amount
                     /\ OtherBalancesUnchanged(u)
                     /\ Consistent(u)

\* C9 witness: an expense with a positive amount has been deleted while
\* another expense of the same user stays.
C9_Witness ==
    /\ Returned(1) /\ req[1].op = "delete_expense" /\ resp[1].result = "ok"
    /\ pre.expenses[loc[1].obj_id].amount > 0
    /\ OwnedIds(expenses, "u1") # {}
    /\ balance["u1"] = pre.balance["u1"] + pre.expenses[loc[1].obj_id].amount

\* C10: add_funds with a positive amount raises the caller's balance by that
\* amount and returns the new balance; with an amount <= 0 it fails with
\* InvalidAmount and the balance is unchanged.
C10_AddFunds ==
    \A p \in Procs :
        (Returned(p) /\ req[p].op = "add_funds") =>
            LET u == req[p].user
                a == Val(req[p].amount)
            IN IF a > 0
               THEN /\ resp[p].result = "ok"
                    /\ balance[u] = pre.balance[u] + a
                    /\ resp[p].new_balance = pre.balance[u] + a
                    /\ OtherBalancesUnchanged(u)
                    /\ expenses = pre.expenses
               ELSE /\ resp[p].result = "InvalidAmount"
                    /\ balance = pre.balance
                    /\ expenses = pre.expenses

\* C10 witness: funds have been added to an account that already held some.
C10_Witness ==
    /\ Returned(1) /\ req[1].op = "add_funds" /\ resp[1].result = "ok"
    /\ pre.balance["u1"] > 0
    /\ resp[1].new_balance = pre.balance["u1"] + Val(req[1].amount)

\* The document new is old with exactly the fields present in the patch r set.
Patched(old, new, r) ==
    /\ new.user_id = old.user_id
    /\ new.amount = (IF r.amount # None THEN Val(r.amount) ELSE old.amount)
    /\ new.category = (IF r.category # None THEN Val(r.category) ELSE old.category)
    /\ new.date = (IF r.date # None THEN Val(r.date) ELSE old.date)
    /\ new.description =
          (IF r.description # None THEN Val(r.description) ELSE old.description)

\* The effect of an accepted update of document id by the request in slot p.
UpdateApplied(p, id, delta) ==
    /\ id \in DOMAIN expenses
    /\ Patched(pre.expenses[id], expenses[id], req[p])
    /\ OthersUnchanged(id)
    /\ balance[req[p].user] = pre.balance[req[p].user] - delta
    /\ OtherBalancesUnchanged(req[p].user)

\* C8 (as claimed): update_expense of an owned expense with amount a and
\* patch amount n is rejected with InsufficientFunds exactly when
\* n - a > balance, so that a decrease or an unchanged amount is always
\* accepted; an accepted update sets the fields of the patch and no other,
\* and lowers the balance by n - a.
C8_UpdateRejectedIffUnaffordable ==
    \A p \in Procs :
        (/\ Returned(p) /\ req[p].op = "update_expense"
         /\ req[p].tgt.kind = "oid"
         /\ FindOwned(pre.expenses, req[p].tgt.val, req[p].user)
         /\ req[p].amount # None) =>
            LET u == req[p].user
                id == req[p].tgt.val
                delta == Val(req[p].amount) - pre.expenses[id].amount
            IN /\ resp[p].result = "InsufficientFunds" <=> delta > pre.balance[u]
               /\ delta <= 0 => resp[p].result = "ok"
               /\ resp[p].result = "ok" => UpdateApplied(p, id, delta)

\* C8 (amended): update_expense of an owned expense with amount a, with a
\* patch that is not empty and whose category, if present, is registered,
\* and delta = n - a (0 when the patch has no amount), is rejected with
\* InsufficientFunds exactly when delta > balance and is accepted otherwise,
\* so that a decrease or an unchanged amount is accepted whenever the balance
\* is not negative; an accepted update sets the fields of the patch and no
\* other, and lowers the balance by delta.
C8_UpdateWithValidPatch ==
    \A p \in Procs :
        (/\ Returned(p) /\ req[p].op = "update_expense"
         /\ req[p].tgt.kind = "oid"
         /\ FindOwned(pre.expenses, req[p].tgt.val, req[p].user)
         /\ ~EmptyPatch(req[p])
         /\ (req[p].category # None => CategoryExists(Val(req[p].category)))) =>
            LET u == req[p].user
                id == req[p].tgt.val
                a == pre.expenses[id].amount
                delta == IF req[p].amount # None THEN Val(req[p].amount) - a ELSE 0
            IN /\ resp[p].result = "InsufficientFunds" <=> delta > pre.balance[u]
               /\ resp[p].result \in {"ok", "InsufficientFunds"}
               /\ (delta <= 0 /\ pre.balance[u] >= 0) => resp[p].result = "ok"
               /\ resp[p].result = "ok" => UpdateApplied(p, id, delta)
               /\ resp[p].result # "ok" =>
                     (balance = pre.balance /\ expenses = pre.expenses)

\* C8 witness (scenario B): an update that raises the amount within the
\* balance and changes the description, and carries neither category nor
\* date, has been accepted.
C8_Witness ==
    /\ Returned(1) /\ req[1].op = "update_expense" /\ resp[1].result = "ok"
    /\ req[1].amount # None /\ req[1].description # None
    /\ req[1].category = None /\ req[1].date = None
    /\ LET old == pre.expenses[loc[1].obj_id]
           new == expenses[loc[1].obj_id]
       IN /\ Val(req[1].amount) > old.amount
          /\ new.description # old.description
          /\ new.date = old.date /\ new.category = old.category
          /\ balance["u1"] = pre.balance["u1"] - (Val(req[1].amount) - old.amount)

\* The requests in slots p and q ran concurrently: one was issued while the
\* other was in flight.
Overlap(p, q) == p \in conc[q] \/ q \in conc[p]

\* C2 (as claimed): of two concurrent add_expense requests of one user, each
\* for the whole balance both read (category registered), exactly one
\* succeeds and the other fails with InsufficientFunds.
C2_ExactlyOneCreateSucceeds ==
    \A p, q \in Procs :
        (/\ p # q /\ Returned(p) /\ Returned(q) /\ Overlap(p, q)
         /\ req[p].op = "add_expense" /\ req[q].op = "add_expense"
         /\ req[p].user = req[q].user
         /\ CategoryExists(Val(req[p].category)) /\ CategoryExists(Val(req[q].category))
         /\ loc[p].balance > 0 /\ loc[q].balance = loc[p].balance
         /\ Val(req[p].amount) = loc[p].balance /\ Val(req[q].amount) = loc[q].balance) =>
            {resp[p].result, resp[q].result} = {"ok", "InsufficientFunds"}

\* C3 (as claimed): under every interleaving of requests of one user, once
\* all requests have returned the balance equals the funds added minus the
\* sum of the amounts of the expenses still present.
C3_BalanceAsIfSerialized ==
    (\A p \in Procs : pc[p] \in {"idle", "done"}) =>
        \A u \in DOMAIN balance :
            balance[u] = funds[u] - SumAmounts(expenses, OwnedIds(expenses, u))

\* C5 (as claimed): when the balance update of add_expense, update_expense or
\* delete_expense fails after the ledger write, the request reports the
\* failure and the ledger write is undone, so that the balance still equals
\* the funds added minus the sum of the stored expense amounts.
C5_FailedAdjustmentUndone ==
    \A p \in Procs :
        (/\ Returned(p) /\ resp[p].result = "ServerError"
         /\ req[p].op \in {"add_expense", "update_expense", "delete_expense"}) =>
            Consistent(req[p].user)

\* C11: with only add_funds requests running, in any interleaving, each
\* balance is the initial balance 0 plus the sum of the accepted amounts, and
\* the balance an accepted request returns includes its own amount and is
\* not above the stored balance.
C11_AddFundsAtomic ==
    /\ \A u \in DOMAIN balance : balance[u] = funds[u]
    /\ \A p \in Procs :
          (Returned(p) /\ req[p].op = "add_funds" /\ resp[p].result = "ok") =>
              /\ resp[p].new_balance >= Val(req[p].amount)
              /\ resp[p].new_balance <= balance[req[p].user]

\* C11 witness: two add_funds requests of one user that ran concurrently have
\* both been accepted, and the balance is the sum of their amounts.
C11_Witness ==
    /\ Returned(1) /\ Returned(2) /\ Overlap(1, 2)
    /\ req[1].op = "add_funds" /\ req[2].op = "add_funds"
    /\ req[1].user = "u1" /\ req[2].user = "u1"
    /\ resp[1].result = "ok" /\ resp[2].result = "ok"
    /\ balance["u1"] = Val(req[1].amount) + Val(req[2].amount)

\* C12 (as claimed): every stored expense has an amount above 0; add_expense
\* with an amount of 0 or less (and a registered category) fails with
\* InvalidAmount and stores nothing.
C12_AmountsPositive ==
    /\ \A i \in DOMAIN expenses : expenses[i].amount > 0
    /\ \A p \in Procs :
          (/\ Returned(p) /\ req[p].op = "add_expense" /\ Val(req[p].amount) <= 0
           /\ CategoryExists(Val(req[p].category))) =>
              (resp[p].result = "InvalidAmount" /\ expenses = pre.expenses)

\* C15 (as claimed): update_expense with a patch that has no field fails with
\* InvalidRequest whatever its id or index addresses, and changes nothing.
C15_EmptyPatchRejectedFirst ==
    \A p \in Procs :
        (Returned(p) /\ req[p].op = "update_expense" /\ EmptyPatch(req[p])) =>
            /\ resp[p].result = "InvalidRequest"
            /\ expenses = pre.expenses /\ balance = pre.balance

\* The requests that address one expense.
ByExpenseId == {"get_expense", "update_expense", "delete_expense"}

\* C13: get_expense, update_expense and delete_expense addressed by ObjectId
\* at an expense that is absent or belongs to another user fail with
\* NotFound, return no data, and change no expense and no balance.
C13_ForeignOrAbsentNotFound ==
    \A p \in Procs :
        (/\ Returned(p) /\ req[p].op \in ByExpenseId /\ req[p].tgt.kind = "oid"
         /\ ~(/\ req[p].tgt.val \in DOMAIN pre.expenses
              /\ pre.expenses[req[p].tgt.val].user_id = req[p].user)) =>
            /\ resp[p].result = "NotFound"
            /\ resp[p].doc = None /\ resp[p].items = <<>>
            /\ expenses = pre.expenses /\ balance = pre.balance

\* C13 witness: get_expense by the id of a stored expense of another user
\* has returned NotFound.
C13_Witness ==
    /\ Returned(1) /\ req[1].op = "get_expense" /\ req[1].tgt.kind = "oid"
    /\ req[1].tgt.val \in DOMAIN expenses
    /\ expenses[req[1].tgt.val].user_id # req[1].user
    /\ resp[1].result = "NotFound" /\ resp[1].doc = None

\* C14 (as claimed): a request addressed by index i below the number of the
\* caller's expenses acts on the record at position i of whichever unfiltered
\* listing of the caller's expenses is taken at that moment, also with equal
\* dates; with i at or above that number it fails with OutOfRange and
\* changes nothing.
C14_IndexMatchesListing ==
    \A p \in Procs :
        (Returned(p) /\ req[p].op \in ByExpenseId /\ req[p].tgt.kind = "idx") =>
            LET u == req[p].user
                i == req[p].tgt.val
                n == Cardinality({k \in DOMAIN pre.expenses : pre.expenses[k].user_id = u})
                shown == {s \in [1 .. n -> DOMAIN pre.expenses] :
                            /\ \A k \in 1 .. n : pre.expenses[s[k]].user_id = u
                            /\ \A j, k \in 1 .. n : j # k => s[j] # s[k]
                            /\ \A j, k \in 1 .. n :
                                  j < k => pre.expenses[s[j]].date >= pre.expenses[s[k]].date}
            IN /\ (0 <= i /\ i < n) =>
                     /\ resp[p].result # "OutOfRange"
                     /\ \A s \in shown : loc[p].obj_id = s[i + 1]
               /\ i >= n =>
                     /\ resp[p].result = "OutOfRange"
                     /\ expenses = pre.expenses /\ balance = pre.balance

\* C18 (as claimed): a get_expenses call changes no expense and no balance,
\* and a second call with the same filters, made with no mutation after the
\* first, returns the same records in the same order, also with equal dates.
C18_ListingRepeatable ==
    \A p \in Procs :
        (Returned(p) /\ req[p].op = "get_expenses") =>
            /\ expenses = pre.expenses /\ balance = pre.balance
            /\ \A s \in SortedByDate(expenses, MatchesQuery(expenses, req[p])) :
                  resp[p].items = [k \in 1 .. Len(s) |-> OutDoc(expenses, s[k])]

\* C19: get_expenses returns, each once, exactly the caller's expenses whose
\* category is the category filter and whose date is at or after start and
\* at or before end, every filter applying only when it is given (present
\* and not the empty string), with dates descending.
C19_ListingFiltered ==
    \A p \in Procs :
        (Returned(p) /\ req[p].op = "get_expenses") =>
            LET r == req[p]
                items == resp[p].items
                given(f, empty) == f # None /\ f # {empty}
                wanted == {i \in DOMAIN pre.expenses :
                             /\ pre.expenses[i].user_id = r.user
                             /\ given(r.category, "") =>
                                   pre.expenses[i].category \in r.category
                             /\ given(r.start, 0) =>
                                   \A d \in r.start : pre.expenses[i].date >= d
                             /\ given(r.end, 0) =>
                                   \A d \in r.end : pre.expenses[i].date <= d}
            IN /\ resp[p].result = "ok"
               /\ {items[k].id : k \in 1 .. Len(items)} = wanted
               /\ Len(items) = Cardinality(wanted)
               /\ \A k \in 1 .. Len(items) :
                     /\ items[k].user_id = r.user
                     /\ items[k].amount = pre.expenses[items[k].id].amount
                     /\ items[k].category = pre.expenses[items[k].id].category
                     /\ items[k].date = pre.expenses[items[k].id].date
                     /\ items[k].description = pre.expenses[items[k].id].description
               /\ \A j, k \in 1 .. Len(items) : j < k => items[j].date >= items[k].date

\* C19 witness: a listing filtered by category and by both ends of the date
\* range has returned some of the caller's expenses and left out others.
C19_Witness ==
    /\ Returned(1) /\ req[1].op = "get_expenses" /\ resp[1].result = "ok"
    /\ Truthy(req[1].category, "") /\ Truthy(req[1].start, 0) /\ Truthy(req[1].end, 0)
    /\ Len(resp[1].items) >= 1
    /\ Len(resp[1].items) < Cardinality(OwnedIds(expenses, req[1].user))

\* C17: when add_expense has been accepted and get_expense of the same user
\* by the returned id follows it, with no update or delete of that expense
\* between, the response holds the amount, category, date and description
\* that were submitted.
C17_CreateGetRoundTrip ==
    (/\ Returned(1) /\ req[1].op = "add_expense" /\ resp[1].result = "ok"
     /\ Returned(2) /\ req[2].op = "get_expense" /\ req[2].user = req[1].user
     /\ req[2].tgt = Oid(resp[1].expense_id)
     /\ resp[1].expense_id \in DOMAIN pre.expenses) =>
        /\ resp[2].result = "ok"
        /\ \A d \in resp[2].doc :
              /\ d.id = resp[1].expense_id
              /\ d.amount = Val(req[1].amount)
              /\ d.category = Val(req[1].category)
              /\ d.date = Val(req[1].date)
              /\ d.description = Val(req[1].description)
        /\ resp[2].doc # None

\* C17 witness: the second expense created, with the largest amount, the
\* second category, date and description, has been read back by its id.
C17_Witness ==
    /\ Returned(1) /\ req[1].op = "add_expense" /\ resp[1].result = "ok"
    /\ Returned(2) /\ req[2].op = "get_expense" /\ resp[2].result = "ok"
    /\ resp[1].expense_id = 2 /\ req[2].tgt = Oid(2)
    /\ resp[1].expense_id \in DOMAIN pre.expenses
    /\ req[1] = AddExpenseReq("u1", MaxAmt, "Travel", 2, "b")
    /\ resp[2].doc # None

\* C16 (as claimed): once delete_user has returned, the deleted account does
\* not exist and no expense of the deleted user is stored, also when a
\* request of that user was in flight during the deletion.
C16_DeletedUserLeavesNothing ==
    \A p \in Procs :
        (Returned(p) /\ req[p].op = "delete_user" /\ resp[p].result = "ok") =>
            /\ Val(req[p].username) \notin DOMAIN balance
            /\ OwnedIds(expenses, Val(req[p].username)) = {}

\* C20: in every interleaving of the requests of two users, a step that
\* changes the balance of a user, or any of that user's expense documents,
\* is a step of a request issued by that user.
C20_UsersIndependent ==
    [][\A u \in Users :
          (\/ balance'[u] # balance[u]
           \/ [i \in OwnedIds(expenses', u) |-> expenses'[i]]
                 # [i \in OwnedIds(expenses, u) |-> expenses[i]]) =>
              \E p \in Procs : req[p].user = u /\ req'[p] = req[p] /\ pc'[p] # pc[p]]_vars

\* C20 witness: while a request of u2 was in flight, u1 has had an update by
\* index 0 accepted; it acted on u1's own expense, the second stored, the
\* first being one of u2, which is as it was.
C20_Witness ==
    /\ 1 \in DOMAIN expenses /\ expenses[1].user_id = "u2" /\ balance["u2"] > 0
    /\ expenses[1].amount = 1
    /\ Returned(1) /\ req[1].user = "u1" /\ Overlap(1, 2)
    /\ req[1].op = "update_expense" /\ req[1].tgt = Idx(0)
    /\ resp[1].result = "ok" /\ loc[1].obj_id = 2
    /\ expenses[2].user_id = "u1" /\ expenses[2].amount = MaxAmt

\* ------------------------------------------------ C22: order of the checks
\* C22: the creation of an expense checks the category before the funds: a
\* request naming an unregistered category is answered InvalidCategory, also
\* when its amount exceeds the balance, and stores nothing.
C22_CategoryCheckedBeforeFunds ==
    \A p \in Procs :
        ( /\ Returned(p)
          /\ req[p].op = "add_expense"
          /\ ~CategoryExists(Val(req[p].category)) )
        => /\ resp[p].result = "InvalidCategory"
           /\ expenses = pre.expenses
           /\ balance = pre.balance

\* ------------------------------------- C23: adjustments of a deleted account
\* C23: a balance adjustment for a user that no longer exists fails with
\* NotFound in add_funds, add_expense, update_expense and delete_expense: when
\* the account was deleted after the request was authenticated, the step that
\* sends the adjustment ends the request with NotFound.
C23_AdjustmentOfDeletedUserFails ==
    [][\A p \in Procs :
          ( /\ pc[p] \in {"inc", "deduct", "adjust", "restore"}
            /\ pc'[p] # pc[p]
            /\ req[p].user \notin DOMAIN balance
            /\ req[p].op = "add_funds" => ~NonPositive(Val(req[p].amount)) )
          => resp'[p].result = "NotFound"]_vars

\* ------------------------------- C24: delete_expense against update_expense
\* C24: when a delete_expense and an update_expense of the amount of the same
\* expense run concurrently, the amount delete_expense adds back to the
\* balance is the amount stored in the document at the moment delete_one
\* removes it.
C24_RestoresAmountAtRemoval ==
    [][\A p \in Procs :
          (pc[p] = "delete" /\ pc'[p] = "restore") =>
              RestoredAmount(loc[p].amount) = expenses[loc[p].obj_id].amount]_vars

\* ------------------------------------ C25: two deletions of one expense
DeleteRequests ==
    {AddFundsReq("u1", MaxAmt)}
    \cup {AddExpenseReq("u1", a, "Food", 1, "a") : a \in 1 .. MaxAmt}
    \cup {DeleteExpenseReq("u1", Oid(i)) : i \in 1 .. MaxIds}

\* Concurrent run of creations and deletions only: two requests of one user
\* at a time, their database operations interleaved in every order.
NextDeletes ==
    \/ \E p \in Procs, r \in DeleteRequests :
          BalanceInRange(r.user) /\ Authenticate(p, r, FALSE)
    \/ \E p \in Procs :
          \/ AddFundsInc(p)
          \/ AddFundsReadBack(p)
          \/ AddExpenseCheck(p)
          \/ AddExpenseInsert(p)
          \/ AddExpenseDeduct(p)
          \/ ResolveExpenseObjectId(p)
          \/ DeleteExpenseFind(p)
          \/ DeleteExpenseDelete(p)
          \/ DeleteExpenseRestore(p)

SpecDeletes == Init /\ [][NextDeletes]_vars

\* C25: when two delete_expense requests of the same expense run
\* concurrently, the amount is added back to the balance exactly once: at most
\* one of the two succeeds, a request that has found the document but whose
\* delete_one removes nothing answers NotFound, and once all requests have
\* returned the balance is the funds added minus the expenses still stored.
C25_ConcurrentDeletesRestoreOnce ==
    /\ \A p, q \in Procs :
          ( /\ p # q /\ Returned(p) /\ Returned(q) /\ Overlap(p, q)
            /\ req[p].op = "delete_expense" /\ req[q].op = "delete_expense"
            /\ req[p].tgt = req[q].tgt )
          => ~(resp[p].result = "ok" /\ resp[q].result = "ok")
    /\ (\A p \in Procs : pc[p] \in {"idle", "done"}) =>
          Consistent("u1")

C25_Witness ==
    \E p, q \in Procs :
        /\ p # q /\ Returned(p) /\ Returned(q) /\ Overlap(p, q)
        /\ req[p].op = "delete_expense" /\ req[q].op = "delete_expense"
        /\ req[p].tgt = req[q].tgt
        /\ resp[p].result = "ok" /\ resp[q].result = "NotFound"
        /\ loc[q].obj_id = loc[p].obj_id /\ loc[q].amount = MaxAmt
        /\ loc[q].obj_id \notin DOMAIN expenses
        /\ balance["u1"] = funds["u1"] /\ funds["u1"] = MaxAmt

\* ---------------------------- C26: update_expense of a deleted expense
RaceRequests ==
    {AddFundsReq("u1", MaxAmt)}
    \cup {AddExpenseReq("u1", MaxAmt, "Food", 1, "a")}
    \cup {UpdateExpenseReq("u1", Oid(1), Some(1), None, None, None)}
    \cup {DeleteExpenseReq("u1", Oid(1))}

\* Concurrent run of updates and deletions of the first expense.
NextRace ==
    \/ \E p \in Procs, r \in RaceRequests :
          BalanceInRange(r.user) /\ Authenticate(p, r, FALSE)
    \/ \E p \in Procs : Step(p)

SpecRace == Init /\ [][NextRace]_vars

\* C26: an update_expense that has read its target and whose target is
\* deleted before its update_one runs matches nothing: the step answers
\* NotFound, leaves every balance and every expense as it is, and the request
\* is over, so no balance adjustment follows.
C26_UpdateOfDeletedMatchesNothing ==
    [][\A p \in Procs :
          ( /\ pc[p] = "set" /\ pc'[p] # "set"
            /\ ~FindOwned(expenses, loc[p].obj_id, req[p].user) )
          => /\ pc'[p] = "done"
             /\ resp'[p].result = "NotFound"
             /\ balance' = balance
             /\ expenses' = expenses]_vars

C26_Witness ==
    \E p, q \in Procs :
        /\ Returned(p) /\ req[p].op = "update_expense" /\ resp[p].result = "NotFound"
        /\ loc[p].amount = MaxAmt
        /\ loc[p].obj_id \notin DOMAIN expenses
        /\ Returned(q) /\ req[q].op = "delete_expense" /\ resp[q].result = "ok"
        /\ Overlap(p, q)
        /\ balance["u1"] = funds["u1"]

\* ------------------------------------- categories, roles, accounts: requests
\* POST /categories
CreateCategoryReq(u, name) ==
    [NoReq EXCEPT !.op = "create_category", !.user = u, !.category = Some(name)]

\* PUT /categories/{category_id}
UpdateCategoryReq(u, t, name) ==
    [NoReq EXCEPT !.op = "update_category", !.user = u, !.tgt = t,
                  !.category = Some(name)]

\* DELETE /categories/{category_id}
DeleteCategoryReq(u, t) ==
    [NoReq EXCEPT !.op = "delete_category", !.user = u, !.tgt = t]

\* POST /admin/promote
PromoteUserReq(u, name, new_role) ==
    [NoReq EXCEPT !.op = "promote_user", !.user = u, !.username = Some(name),
                  !.new_role = Some(new_role)]

\* POST /register: sent without a token, so the request has no caller.
RegisterReq(name, email, password) ==
    [NoReq EXCEPT !.op = "register", !.user = "", !.username = Some(name),
                  !.email = Some(email), !.password = Some(password)]

\* POST /login: sent without a token.
LoginReq(name, password) ==
    [NoReq EXCEPT !.op = "login", !.user = "", !.username = Some(name),
                  !.password = Some(password)]

\* ------------------------------------------------------ the user documents
\* The "email" and "password" fields of the accounts that exist at the start;
\* no handler changes them.
Email == [u \in Users |-> IF u = "u1" THEN "e1" ELSE "e2"]
Password == [u \in Users |-> IF u = "u1" THEN "p1" ELSE "p2"]

\* users_collection.find_one({"username": name})
UsernameTaken(name) ==
    \/ name \in DOMAIN balance
    \/ \E i \in DOMAIN registered : registered[i].username = name

\* users_collection.find_one({"email": email})
EmailTaken(email) ==
    \/ \E u \in DOMAIN balance : Email[u] = email
    \/ \E i \in DOMAIN registered : registered[i].email = email

\* verify_password on the document get_user returns (the first with that
\* username).
PasswordMatches(name, password) ==
    IF name \in DOMAIN balance
    THEN Password[name] = password
    ELSE LET i == CHOOSE j \in DOMAIN registered :
                     /\ registered[j].username = name
                     /\ \A k \in 1 .. j - 1 : registered[k].username # name
         IN registered[i].password = password

\* The ObjectId insert_one gives a new category: ids 1 and 2 are those of the
\* two categories stored at the start.
NewCategoryId == nextId + 2

\* ---------------------------------------------------------------- actions
\* A request of an endpoint that takes no token arrives.
Accept(p, r, track) ==
    /\ pc[p] \in {"idle", "done"}
    /\ WithinBounds(r)
    /\ req' = [req EXCEPT ![p] = r]
    /\ conc' = [q \in Procs |-> IF q = p THEN InFlight \ {p} ELSE conc[q] \ {p}]
    /\ pre' = IF track THEN [balance |-> balance, expenses |-> expenses] ELSE pre
    /\ pc' = [pc EXCEPT ![p] = FirstStep(r.op)]
    /\ resp' = [resp EXCEPT ![p] = NoResp]
    /\ loc' = [loc EXCEPT ![p] = NoLoc]
    /\ UNCHANGED <<balance, role, expenses, categories, registered, session_state, nextId,
                   funds>>

\* create_category: get_current_admin, then find_one({"name": ...}).
CreateCategoryFind(p) ==
    /\ pc[p] = "cat_find"
    /\ IF loc[p].role # "admin"
       THEN Finish(p, "Forbidden")
       ELSE IF CategoryExists(Val(req[p].category))
       THEN Finish(p, "CategoryExists")
       ELSE Goto(p, "cat_insert")
    /\ UNCHANGED <<balance, role, expenses, categories, registered, session_state, nextId,
                   req, loc, funds, pre, conc>>

\* create_category: insert_one, and the response.
CreateCategoryInsert(p) ==
    /\ pc[p] = "cat_insert"
    /\ categories' = categories \cup {[id |-> NewCategoryId, name |-> Val(req[p].category)]}
    /\ nextId' = nextId + 1
    /\ Finish(p, "ok")
    /\ UNCHANGED <<balance, role, expenses, registered, session_state, req, loc, funds,
                   pre, conc>>

\* update_one({"_id": obj_id}, {"$set": {"name": category.name}})
Renamed(cats, id, name) ==
    {IF c.id = id THEN [c EXCEPT !.name = name] ELSE c : c \in cats}

\* update_category: get_current_admin, ObjectId(category_id), update_one,
\* and the response.
UpdateCategory(p) ==
    /\ pc[p] = "cat_update"
    /\ IF loc[p].role # "admin"
       THEN Finish(p, "Forbidden") /\ UNCHANGED categories
       ELSE IF req[p].tgt.kind # "oid"
       THEN Finish(p, "BadFormat") /\ UNCHANGED categories
       ELSE IF ~\E c \in categories : c.id = req[p].tgt.val
       THEN Finish(p, "NotFound") /\ UNCHANGED categories
       ELSE /\ categories' = Renamed(categories, req[p].tgt.val, Val(req[p].category))
            /\ Finish(p, "ok")
    /\ UNCHANGED <<balance, role, expenses, registered, session_state, nextId, req, loc,
                   funds, pre, conc>>

\* Mutant: the expenses of the deleted category are deleted with it.
DeleteCategory_Cascade(p) ==
    /\ pc[p] = "cat_delete"
    /\ IF loc[p].role # "admin"
       THEN Finish(p, "Forbidden") /\ UNCHANGED <<categories, expenses>>
       ELSE IF req[p].tgt.kind # "oid"
       THEN Finish(p, "BadFormat") /\ UNCHANGED <<categories, expenses>>
       ELSE IF ~\E c \in categories : c.id = req[p].tgt.val
       THEN Finish(p, "NotFound") /\ UNCHANGED <<categories, expenses>>
       ELSE LET c == CHOOSE d \in categories : d.id = req[p].tgt.val IN
            /\ categories' = categories \ {c}
            /\ expenses' = [i \in {j \in DOMAIN expenses : expenses[j].category # c.name}
                              |-> expenses[i]]
            /\ Finish(p, "ok")
    /\ UNCHANGED <<balance, role, registered, session_state, nextId, req, loc, funds,
                   pre, conc>>

\* delete_category: get_current_admin, ObjectId(category_id), delete_one,
\* and the response.
DeleteCategory(p) ==
    /\ pc[p] = "cat_delete"
    /\ IF loc[p].role # "admin"
       THEN Finish(p, "Forbidden") /\ UNCHANGED categories
       ELSE IF req[p].tgt.kind # "oid"
       THEN Finish(p, "BadFormat") /\ UNCHANGED categories
       ELSE IF ~\E c \in categories : c.id = req[p].tgt.val
       THEN Finish(p, "NotFound") /\ UNCHANGED categories
       ELSE /\ categories' = {c \in categories : c.id # req[p].tgt.val}
            /\ Finish(p, "ok")
    /\ UNCHANGED <<balance, role, expenses, registered, session_state, nextId, req, loc,
                   funds, pre, conc>>

\* promote_user: get_current_admin, the role check, update_one({"username":
\* ...}, {"$set": {"role": ...}}) on the first document with that username,
\* and the response.
PromoteUser(p) ==
    /\ pc[p] = "promote"
    /\ LET name == Val(req[p].username)
           new_role == Val(req[p].new_role)
       IN IF loc[p].role # "admin"
          THEN Finish(p, "Forbidden") /\ UNCHANGED <<role, registered>>
          ELSE IF new_role \notin {"user", "admin"}
          THEN Finish(p, "InvalidRole") /\ UNCHANGED <<role, registered>>
          ELSE IF name \in DOMAIN role
          THEN /\ role' = [role EXCEPT ![name] = new_role]
               /\ Finish(p, "ok")
               /\ UNCHANGED registered
          ELSE IF \E i \in DOMAIN registered : registered[i].username = name
          THEN LET i == CHOOSE j \in DOMAIN registered :
                           /\ registered[j].username = name
                           /\ \A k \in 1 .. j - 1 : registered[k].username # name
               IN /\ registered' = [registered EXCEPT ![i].role = new_role]
                  /\ Finish(p, "ok")
                  /\ UNCHANGED role
          ELSE Finish(p, "NotFound") /\ UNCHANGED <<role, registered>>
    /\ UNCHANGED <<balance, expenses, categories, session_state, nextId, req, loc, funds,
                   pre, conc>>

\* register: find_one({"username": ...})
RegisterFindUsername(p) ==
    /\ pc[p] = "reg_username"
    /\ IF UsernameTaken(Val(req[p].username))
       THEN Finish(p, "UsernameTaken")
       ELSE Goto(p, "reg_email")
    /\ UNCHANGED <<balance, role, expenses, categories, registered, session_state, nextId,
                   req, loc, funds, pre, conc>>

\* register: find_one({"email": ...})
RegisterFindEmail(p) ==
    /\ pc[p] = "reg_email"
    /\ IF EmailTaken(Val(req[p].email))
       THEN Finish(p, "EmailTaken")
       ELSE Goto(p, "reg_insert")
    /\ UNCHANGED <<balance, role, expenses, categories, registered, session_state, nextId,
                   req, loc, funds, pre, conc>>

\* The document register inserts.
NewUser(r) ==
    [username |-> Val(r.username), email |-> Val(r.email),
     password |-> Val(r.password), role |-> "user", balance |-> 0]

\* register: insert_one, and the response.
RegisterInsert(p) ==
    /\ pc[p] = "reg_insert"
    /\ registered' = Append(registered, NewUser(req[p]))
    /\ nextId' = nextId + 1
    /\ pc' = [pc EXCEPT ![p] = "done"]
    /\ resp' = [resp EXCEPT ![p] =
                  [Reply("ok") EXCEPT !.doc = Some([username |-> Val(req[p].username),
                                                    email |-> Val(req[p].email),
                                                    role |-> "user", balance |-> 0])]]
    /\ UNCHANGED <<balance, role, expenses, categories, session_state, req, loc, funds,
                   pre, conc>>

\* login: authenticate_user (get_user, verify_password), and the token.
Login(p) ==
    /\ pc[p] = "login"
    /\ IF /\ UsernameTaken(Val(req[p].username))
          /\ PasswordMatches(Val(req[p].username), Val(req[p].password))
       THEN Finish(p, "ok")
       ELSE Finish(p, "Unauthorized")
    /\ UNCHANGED <<balance, role, expenses, categories, registered, session_state, nextId,
                   req, loc, funds, pre, conc>>

\* --------------------------------------- run of the administrative requests
\* Category ids: the two stored at the start, one that is never generated,
\* and a malformed one.
CategoryTargets == {Oid(1), Oid(2), Oid(MaxIds + 3), BadId}

FrameRequests ==
    {AddFundsReq("u1", MaxAmt)}
    \cup {AddExpenseReq("u1", 1, "Food", 1, "a")}
    \cup {UpdateExpenseReq("u1", Oid(1), Some(MaxAmt), None, None, None)}
    \cup {DeleteExpenseReq("u1", Oid(1))}
    \cup {GetExpenseReq("u1", Oid(1)), GetExpensesReq("u1", None, None, None)}
    \cup {CreateCategoryReq(u, n) : u \in Users, n \in {"Food", "Gifts"}}
    \cup {UpdateCategoryReq("u2", t, n) : t \in CategoryTargets, n \in {"Food", "Gifts"}}
    \cup {DeleteCategoryReq("u2", t) : t \in CategoryTargets}
    \cup {PromoteUserReq("u2", n, r) : n \in {"u1", "u3"}, r \in {"admin", "user", "root"}}
    \cup {RegisterReq(n, e, "p3") : n \in {"u1", "u3"}, e \in {"e1", "e3"}}
    \cup {LoginReq(n, w) : n \in {"u1", "u3"}, w \in {"p1", "p3"}}

\* Sequential run: the requests of a user and of an administrator, and the
\* requests sent without a token, one at a time.
NextFrame ==
    \/ \E r \in FrameRequests :
          /\ InFlight = {} /\ r.op \notin {"register", "login"}
          /\ Authenticate(1, r, TRUE)
    \/ \E r \in FrameRequests :
          /\ InFlight = {} /\ r.op \in {"register", "login"}
          /\ Accept(1, r, TRUE)
    \/ Step(1)
    \/ GetExpenseFind(1)
    \/ GetExpensesFind(1)
    \/ CreateCategoryFind(1)
    \/ CreateCategoryInsert(1)
    \/ UpdateCategory(1)
    \/ DeleteCategory(1)
    \/ PromoteUser(1)
    \/ RegisterFindUsername(1)
    \/ RegisterFindEmail(1)
    \/ RegisterInsert(1)
    \/ Login(1)

SpecFrame == Init /\ [][NextFrame]_vars

\* ------------------------------------------------ C21: names of categories
\* C21: after any sequence of create_category, update_category and
\* delete_category requests, no two stored categories have the same name.
C21_CategoryNamesUnique ==
    \A c, d \in categories : c.name = d.name => c.id = d.id

\* ------------------------------------- C27: requests that leave the ledger
\* The handlers of categories, roles, accounts and reads.
FrameOps ==
    {"create_category", "update_category", "delete_category", "promote_user",
     "login", "register", "get_expenses", "get_expense"}

\* C27: creating, renaming and deleting a category (also one that stored
\* expenses name), changing a role, logging in, registering another user,
\* listing the expenses and reading one expense, accepted or rejected, leave
\* every existing balance and every expense document as they were.
C27_LedgerUntouched ==
    \A p \in Procs :
        (Returned(p) /\ req[p].op \in FrameOps) =>
            /\ expenses = pre.expenses
            /\ balance = pre.balance

\* The category of a stored expense has been deleted.
C27_Witness ==
    /\ Returned(1) /\ req[1].op = "delete_category" /\ resp[1].result = "ok"
    /\ 1 \in DOMAIN expenses
    /\ expenses[1].category = "Food" /\ ~CategoryExists("Food")
    /\ expenses[1].amount = 1
    /\ balance["u1"] = MaxAmt - 1

\* ------------------------------------------- C29: concurrent registrations
RegisterRequests ==
    {RegisterReq(n, e, "p3") : n \in {"u1", "u3", "u4"}, e \in {"e1", "e3", "e4"}}

\* Concurrent run of register requests: two at a time, their database
\* operations interleaved in every order.
NextRegister ==
    \/ \E p \in Procs, r \in RegisterRequests : Accept(p, r, FALSE)
    \/ \E p \in Procs :
          \/ RegisterFindUsername(p)
          \/ RegisterFindEmail(p)
          \/ RegisterInsert(p)

SpecRegister == Init /\ [][NextRegister]_vars

\* C29: in every interleaving of register requests no two accounts have the
\* same username or the same email, and every account register has created
\* has the role "user" and the balance 0.
C29_AccountsUnique ==
    /\ \A i, j \in DOMAIN registered :
          i # j => /\ registered[i].username # registered[j].username
                   /\ registered[i].email # registered[j].email
    /\ \A i \in DOMAIN registered, u \in DOMAIN balance :
          /\ registered[i].username # u
          /\ registered[i].email # Email[u]
    /\ \A i \in DOMAIN registered :
          registered[i].role = "user" /\ registered[i].balance = 0

\* ---------------------------------------------- the browser session (app.py)
\* The balance the pages read: st.session_state["user"]["balance"], set at
\* login from GET /users/me.
CachedBalance == session_state.user.balance

\* The amounts the forms accept: "Amount to add" has min_value 0.01, "Amount"
\* has min_value 0.0, "New Amount" has no minimum.
AddFundsInputs == {MaxAmt}
AddExpenseInputs == {0, 1}
UpdateInputs == {-1, MaxAmt}

\* add_expense_page: the selectbox offers the names GET /categories returns,
\* and a free text field replaces it when there are none.
CategoryInputs ==
    IF categories # {} THEN {c.name : c \in categories} ELSE {"Food", "Bogus"}

\* manage_budget_page: the "Add Funds" form posts the amount.
SubmitAddFunds(a) ==
    /\ pc[1] = "idle"
    /\ Authenticate(1, AddFundsReq(session_state.user.username, a), TRUE)

\* add_expense_page: the "Add Expense" form; an amount above the cached
\* balance is refused by the page and no request is sent.
SubmitAddExpense(a, c) ==
    /\ pc[1] = "idle"
    /\ ~(a > CachedBalance)
    /\ Authenticate(1, AddExpenseReq(session_state.user.username, a, c, 1, "a"), TRUE)

\* view_expenses_page: "Update Expense" in the form of listed expense i; a
\* change above the cached balance is refused by the page.
SubmitUpdate(i, new_amount) ==
    /\ pc[1] = "idle"
    /\ i \in OwnedIds(expenses, session_state.user.username)
    /\ ~(new_amount - expenses[i].amount > CachedBalance)
    /\ Authenticate(1, UpdateExpenseReq(session_state.user.username, Oid(i),
                                        Some(new_amount), None, None,
                                        Some(expenses[i].description)), TRUE)

\* view_expenses_page: "Delete Expense" in the form of listed expense i.
SubmitDelete(i) ==
    /\ pc[1] = "idle"
    /\ i \in OwnedIds(expenses, session_state.user.username)
    /\ Authenticate(1, DeleteExpenseReq(session_state.user.username, Oid(i)), TRUE)

\* Mutant: the update form subtracts the new amount, not the change.
BalanceAfterResponse_NewAmount(bal, r, rsp, listed) ==
    IF rsp.result # "ok" THEN bal
    ELSE IF r.op = "add_funds" THEN rsp.new_balance
    ELSE IF r.op = "add_expense" THEN bal - Val(r.amount)
    ELSE IF r.op = "update_expense" THEN bal - Val(r.amount)
    ELSE bal + listed[r.tgt.val].amount

\* The cached balance after call_api has returned: None (an error response)
\* leaves it; otherwise add funds stores the response's new_balance, add
\* expense subtracts the amount, update subtracts amount_change (the new
\* amount less the listed one) and delete adds the listed amount.
BalanceAfterResponse(bal, r, rsp, listed) ==
    IF rsp.result # "ok" THEN bal
    ELSE IF r.op = "add_funds" THEN rsp.new_balance
    ELSE IF r.op = "add_expense" THEN bal - Val(r.amount)
    ELSE IF r.op = "update_expense"
    THEN bal - (Val(r.amount) - listed[r.tgt.val].amount)
    ELSE bal + listed[r.tgt.val].amount

\* The page handles the response of its request: pre.expenses is the listing
\* the page fetched before it sent the request.
HandleResponse ==
    /\ pc[1] = "done"
    /\ session_state' = [session_state EXCEPT !.user.balance =
                            BalanceAfterResponse(@, req[1], resp[1], pre.expenses)]
    /\ pc' = [pc EXCEPT ![1] = "idle"]
    /\ UNCHANGED <<balance, role, expenses, categories, registered, nextId, req, loc,
                   resp, funds, pre, conc>>

\* One browser session of user u1 and no other client of that account; an
\* administrator deletes categories meanwhile.
NextSession ==
    \/ \E a \in AddFundsInputs : SubmitAddFunds(a)
    \/ \E a \in AddExpenseInputs, c \in CategoryInputs : SubmitAddExpense(a, c)
    \/ \E i \in 1 .. MaxIds, a \in UpdateInputs : SubmitUpdate(i, a)
    \/ \E i \in 1 .. MaxIds : SubmitDelete(i)
    \/ Step(1)
    \/ HandleResponse
    \/ \E k \in 1 .. 2 :
          InFlight = {} /\ Authenticate(2, DeleteCategoryReq("u2", Oid(k)), FALSE)
    \/ DeleteCategory(2)

SpecSession == Init /\ [][NextSession]_vars

\* ----------------------------------------------- C28: the cached balance
\* C28: in one browser session with no other client of the account, after
\* every submission of the add funds, add expense, update and delete forms,
\* accepted or rejected by the page or by the server, the balance the session
\* caches is the balance the server stores.
C28_CacheMatchesServer ==
    pc[1] = "idle" => CachedBalance = balance[session_state.user.username]

\* An accepted update that changed the amount, handled by the page.
C28_Witness ==
    /\ pc[1] = "idle" /\ req[1].op = "update_expense" /\ resp[1].result = "ok"
    /\ pre.expenses[1].amount = 1 /\ expenses[1].amount = MaxAmt
    /\ CachedBalance = funds["u1"] - MaxAmt
    /\ CachedBalance = balance["u1"]

====
